---- MODULE Spec2Model ----
(***************************************************************************)
(* A model of netkit.py: the command dispatcher (main), the calls each     *)
(* command issues to the AWS collaborator, the security-group rule         *)
(* classifier of check_compliance, the subnet split of calculate_subnets   *)
(* and the subnet set difference of diff_vpcs.                             *)
(*                                                                         *)
(* Optional fields of the collaborator's records (dict.get) are modelled   *)
(* as sequences of length at most one: <<>> is an absent field (None),     *)
(* <<v>> a field of value v.  CIDR texts are sequences of characters, so   *)
(* that str.endswith is computed on the text.                              *)
(***************************************************************************)
EXTENDS Integers, Sequences, FiniteSets, TLC

\* ---------------------------------------------------------------- bounds
\* Entries (groups + rules + source ranges) in one describe_security_groups
\* response.
MaxEntries == 5
\* Largest --count given to the subnet command.
MaxCount == 9
\* VPCs returned to vpc-map, available transit gateways returned to cost.
MaxVpcs == 2
MaxTgws == 2

\* ------------------------------------------------------- option helpers
None == <<>>
Some(v) == <<v>>
Get(opt, default) == IF opt = None THEN default ELSE opt[1]
\* Python truthiness of an optional integer: None and 0 are both false.
Truthy(opt) == opt # None /\ opt[1] # 0

\* ------------------------------------------------------------ CIDR text
Cidr_any  == <<"0", ".", "0", ".", "0", ".", "0", "/", "0">>
Cidr_8    == <<"1", "0", ".", "0", ".", "0", ".", "0", "/", "8">>
Cidr_9    == <<"1", "0", ".", "0", ".", "0", ".", "0", "/", "9">>
Cidr_15   == <<"1", "0", ".", "0", ".", "0", ".", "0", "/", "1", "5">>
Cidr_16   == <<"1", "0", ".", "0", ".", "0", ".", "0", "/", "1", "6">>
Cidr_24   == <<"1", "0", ".", "0", ".", "0", ".", "0", "/", "2", "4">>
\* ip_range.get('CidrIp', '') of an entry without CidrIp
Cidr_none == <<>>

SourceCidrs == {Cidr_any, Cidr_8, Cidr_9, Cidr_15, Cidr_16, Cidr_24, Cidr_none}

endswith(s, suffix) ==
    /\ Len(s) >= Len(suffix)
    /\ SubSeq(s, Len(s) - Len(suffix) + 1, Len(s)) = suffix

\* ------------------------------------------------------ rule classifier
risky_ports == <<
    [port |-> 22,    service |-> "SSH",           descr |-> "22 (SSH)"],
    [port |-> 3389,  service |-> "RDP",           descr |-> "3389 (RDP)"],
    [port |-> 3306,  service |-> "MySQL",         descr |-> "3306 (MySQL)"],
    [port |-> 5432,  service |-> "PostgreSQL",    descr |-> "5432 (PostgreSQL)"],
    [port |-> 1433,  service |-> "MSSQL",         descr |-> "1433 (MSSQL)"],
    [port |-> 27017, service |-> "MongoDB",       descr |-> "27017 (MongoDB)"],
    [port |-> 6379,  service |-> "Redis",         descr |-> "6379 (Redis)"],
    [port |-> 9200,  service |-> "Elasticsearch", descr |-> "9200 (Elasticsearch)"] >>

\* Values the collaborator may put in a rule.
Protocols  == {None, Some("-1"), Some("tcp")}
PortBounds == {None, Some(0), Some(22), Some(3306)}

Issue(severity, sg_id, protocol, port, source, description) ==
    [severity |-> severity, sg_id |-> sg_id, protocol |-> protocol,
     port |-> port, source |-> source, description |-> description]

MapSeq(s, F(_)) == [i \in 1..Len(s) |-> F(s[i])]

\* The sensitive ports, in table order, inside [from_port, to_port].
InBounds(from_port, to_port) ==
    LET Test(r) == from_port[1] <= r.port /\ r.port <= to_port[1]
    IN  SelectSeq(risky_ports, Test)

\* The body of the loop over rule['IpRanges']: the issues appended for one
\* source entry of one rule.
ClassifyRangeFallThrough(sg_id, IpProtocol, from_port, to_port, cidr) ==
    LET protocol == Get(IpProtocol, "-1")
        High(r) == Issue("HIGH", sg_id, protocol, r.descr, cidr,
                         <<r.service, "exposed to internet">>)
        hits == IF Truthy(from_port) /\ Truthy(to_port)
                THEN InBounds(from_port, to_port) ELSE <<>>
    IN  IF cidr = Cidr_any
        THEN (IF protocol = "-1"
              THEN <<Issue("CRITICAL", sg_id, "ALL", "ALL", cidr,
                           <<"All traffic allowed from internet">>)>>
              ELSE <<>>) \o MapSeq(hits, High)
        ELSE <<>>

ClassifyRange(sg_id, IpProtocol, from_port, to_port, cidr) ==
    LET protocol == Get(IpProtocol, "-1")
        High(r) == Issue("HIGH", sg_id, protocol, r.descr, cidr,
                         <<r.service, "exposed to internet">>)
        Medium(r) == Issue("MEDIUM", sg_id, protocol, r.descr, cidr,
                           <<r.service, "exposed to large CIDR block">>)
    IN  IF cidr = Cidr_any
        THEN IF protocol = "-1"
             THEN <<Issue("CRITICAL", sg_id, "ALL", "ALL", cidr,
                          <<"All traffic allowed from internet">>)>>
             ELSE IF Truthy(from_port) /\ Truthy(to_port)
                  THEN MapSeq(InBounds(from_port, to_port), High)
                  ELSE <<>>
        ELSE IF endswith(cidr, <<"/", "8">>) \/ endswith(cidr, <<"/", "1", "6">>)
             THEN IF Truthy(from_port) /\ Truthy(to_port)
                  THEN MapSeq(InBounds(from_port, to_port), Medium)
                  ELSE <<>>
             ELSE <<>>

\* severity_order.get(severity, 3)
severity_order(severity) ==
    CASE severity = "CRITICAL" -> 0
      [] severity = "HIGH"     -> 1
      [] severity = "MEDIUM"   -> 2
      [] OTHER                 -> 3

\* list.sort(key=...): a stable sort, here by insertion from the left.
RECURSIVE InsertByKey(_, _)
InsertByKey(x, sorted) ==
    IF sorted = <<>> THEN <<x>>
    ELSE IF severity_order(x.severity) < severity_order(Head(sorted).severity)
         THEN <<x>> \o sorted
         ELSE <<Head(sorted)>> \o InsertByKey(x, Tail(sorted))

RECURSIVE SortFrom(_, _)
SortFrom(todo, sorted) ==
    IF todo = <<>> THEN sorted
    ELSE SortFrom(Tail(todo), InsertByKey(Head(todo), sorted))

\* A sort that is not stable: an issue is placed before its equals.
RECURSIVE InsertBeforeEquals(_, _)
InsertBeforeEquals(x, sorted) ==
    IF sorted = <<>> THEN <<x>>
    ELSE IF severity_order(x.severity) <= severity_order(Head(sorted).severity)
         THEN <<x>> \o sorted
         ELSE <<Head(sorted)>> \o InsertBeforeEquals(x, Tail(sorted))

RECURSIVE UnstableSortFrom(_, _)
UnstableSortFrom(todo, sorted) ==
    IF todo = <<>> THEN sorted
    ELSE UnstableSortFrom(Tail(todo), InsertBeforeEquals(Head(todo), sorted))

UnstableSort(list) == UnstableSortFrom(list, <<>>)

SortIssues(list) == SortFrom(list, <<>>)

CountSeverity(list, severity) ==
    Cardinality({i \in 1..Len(list) : list[i].severity = severity})

\* The return statement of check_compliance.
ExitStatusHighFirst(strict_, critical_, high_) ==
    IF strict_ /\ high_ > 0 THEN 1
    ELSE IF strict_ /\ critical_ > 0 THEN 2
    ELSE 0

ExitStatus(strict_, critical_, high_) ==
    IF strict_
    THEN IF critical_ > 0 THEN 2
         ELSE IF high_ > 0 THEN 1
         ELSE 0
    ELSE 0

\* -------------------------------------------------------- subnet split
\* The ceiling on the new prefix length (new_prefix > 28).
MaxPrefix == 28

\* A token of the address part that is not a decimal number.
NotANumber == -1

\* The cidr argument, split as ipaddress splits it: the address part on
\* ".", and the optional part after "/".
CidrOctets == {<<10, 0, 0, 0>>, <<10, 0, 0, 16>>, <<10, 0, 0, 1>>, <<10, 1, 0, 0>>,
               <<10, 0, 0, 256>>, <<10, 0, 0>>, <<NotANumber>>}
CidrPrefixes == {None, Some(8), Some(16), Some(24), Some(25), Some(27),
                 Some(28), Some(29), Some(33)}
CidrArgs == [octets : CidrOctets, prefix : CidrPrefixes]
Counts == (-1)..MaxCount

\* ipaddress.ip_network(text), strict: ValueError unless four octets in
\* 0..255, a prefix length in 0..32 (32 when absent) and no host bit set.
ip_network_nonstrict(arg) ==
    LET o == arg.octets
        prefixlen == Get(arg.prefix, 32)
        wellformed == /\ Len(o) = 4
                      /\ \A i \in 1..Len(o) : o[i] \in 0..255
                      /\ prefixlen \in 0..32
    IN  IF ~wellformed
        THEN [valid |-> FALSE, addr |-> 0, prefixlen |-> 0]
        ELSE [valid |-> TRUE,
              addr |-> o[1] * 16777216 + o[2] * 65536 + o[3] * 256 + o[4],
              prefixlen |-> prefixlen]

ip_network(arg) ==
    LET o == arg.octets
        prefixlen == Get(arg.prefix, 32)
        wellformed == /\ Len(o) = 4
                      /\ \A i \in 1..Len(o) : o[i] \in 0..255
                      /\ prefixlen \in 0..32
        addr == o[1] * 16777216 + o[2] * 65536 + o[3] * 256 + o[4]
    IN  IF wellformed /\ (prefixlen = 0 => addr = 0)
                      /\ (prefixlen > 0 => addr % (2 ^ (32 - prefixlen)) = 0)
        THEN [valid |-> TRUE, addr |-> addr, prefixlen |-> prefixlen]
        ELSE [valid |-> FALSE, addr |-> 0, prefixlen |-> 0]

\* math.ceil(math.log2(count)) for count >= 1.
RECURSIVE FloorLog2(_)
FloorLog2(n) == IF n <= 1 THEN 0 ELSE 1 + FloorLog2(n \div 2)

RECURSIVE CeilLog2(_)
CeilLog2(n) == IF n <= 1 THEN 0 ELSE 1 + CeilLog2((n + 1) \div 2)

\* list(network.subnets(new_prefix=new_prefix)): range(start, end, step).
subnets(network, new_prefix) ==
    LET step == 2 ^ (32 - new_prefix)
        n == 2 ^ (new_prefix - network.prefixlen)
    IN  [i \in 1..n |-> [addr |-> network.addr + (i - 1) * step,
                         prefixlen |-> new_prefix]]

Take(s, n) == SubSeq(s, 1, IF n < Len(s) THEN n ELSE Len(s))

NoOutput == [original |-> None, new_prefix |-> None, allocations |-> <<>>]

\* The ceiling test of calculate_subnets.
OverCeilingInclusive(new_prefix) == new_prefix >= MaxPrefix
OverCeiling(new_prefix) == new_prefix > MaxPrefix

\* calculate_subnets(args): what it prints and returns.  raised is TRUE
\* when an exception leaves the function (main then reports it and
\* returns 1).
calculate_subnets(cidr, count_) ==
    LET network == ip_network(cidr)
        bits_needed == CeilLog2(count_)
        new_prefix == network.prefixlen + bits_needed
        new_hosts == 2 ^ (32 - new_prefix) - 2
        original_hosts == 2 ^ (32 - network.prefixlen) - 2
        listed == Take(subnets(network, new_prefix), count_)
    IN  IF ~network.valid
        THEN [ret |-> 1, raised |-> FALSE, error |-> <<"ValueError">>,
              out |-> NoOutput]
        ELSE IF count_ <= 0
        THEN [ret |-> 1, raised |-> TRUE, error |-> <<"math domain error">>,
              out |-> NoOutput]
        ELSE IF OverCeiling(new_prefix)
        THEN [ret |-> 1, raised |-> FALSE,
              error |-> <<"Too many subnets", new_prefix, MaxPrefix>>,
              out |-> NoOutput]
        ELSE [ret |-> 0, raised |-> FALSE, error |-> <<>>,
              out |-> [original |-> Some(<<network.prefixlen, original_hosts>>),
                       new_prefix |-> Some(<<new_prefix, new_hosts>>),
                       allocations |->
                           [i \in 1..Len(listed) |->
                               [index |-> i, subnet |-> listed[i],
                                hosts |-> new_hosts]]]]

\* ------------------------------------------------------------ diff_vpcs
SubnetCidrs == {"10.0.1.0/24", "10.0.2.0/24", "10.0.3.0/24"}

\* only1 = subnets1 - subnets2 ; only2 = subnets2 - subnets1, and the two
\* "Only in" lines, each printed only for a non-empty set.
OnlyInWithoutDifference(mine, other) == mine
OnlyIn(mine, other) == mine \ other
OnlyLine(only) == IF only # {} THEN Some(only) ELSE None

\* args.vpc1 and args.vpc2, and what describe_vpcs may return for them.
vpc1 == "vpc-a"
vpc2 == "vpc-b"
DiffResponses == {<<>>, <<vpc1>>, <<vpc2>>, <<vpc1, vpc2>>, <<vpc2, vpc1>>,
                  <<vpc1, vpc2, "vpc-c">>}

\* vpc['CidrBlock'] of the VPC record with the given id.
CidrBlock(id) ==
    CASE id = vpc1 -> "10.0.0.0/16"
      [] id = vpc2 -> "172.16.0.0/16"
      [] OTHER     -> "192.168.0.0/16"

\* vpc1, vpc2 = vpcs[0], vpcs[1] and the "VPC 1:" and "VPC 2:" lines: the
\* identifier from the command line beside the CIDR of the record at that
\* position of the response.
VpcLines(found) ==
    <<[id |-> vpc1, cidr |-> CidrBlock(found[1])],
      [id |-> vpc2, cidr |-> CidrBlock(found[2])]>>

\* len(vpcs) != 2
NotBothVpcsFewer(n) == n < 2
NotBothVpcs(n) == n # 2

\* -------------------------------------------------------- estimate_costs
\* Money is counted in thousandths of a dollar, so that the hourly prices
\* 0.045 and 0.05 are whole numbers.
nat_hourly == 45
tgw_attachment_hourly == 50
hours_per_month == 730

\* f"{x:.2f}": the amount in cents, rounded to the nearest cent.
Format2f(x) == (x + 5) \div 10

\* What the collaborator may return: the State of each NAT gateway, of
\* each attachment of a transit gateway, and of the instances of each
\* reservation.
NatResponses == {<<>>, <<"available">>, <<"pending">>,
                 <<"available", "deleted", "available">>}
AttachmentResponses == {<<>>, <<"available">>, <<"deleting">>,
                        <<"available", "deleting", "available">>}
InstanceResponses == {<<>>, <<<<"running">>>>,
                      <<<<"running", "stopped">>, <<"running">>>>}

\* A transit gateway with the attachments the collaborator holds for it.
TransitGateways == [State : {"available", "pending"},
                    Attachments : AttachmentResponses]
RECURSIVE SeqsUpTo(_, _)
SeqsUpTo(S, n) ==
    IF n = 0 THEN {<<>>}
    ELSE LET shorter == SeqsUpTo(S, n - 1)
         IN  shorter \cup {Append(q, x) : q \in shorter, x \in S}
TgwResponses == SeqsUpTo(TransitGateways, MaxTgws)

\* sum(1 for x in states if x == 'available')
CountAll(states) == Len(states)
CountAvailable(states) ==
    Cardinality({i \in 1..Len(states) : states[i] = "available"})

\* The gateways for which the loop queries attachments.
AvailableTgws(gateways) ==
    LET Test(tgw) == tgw.State = "available" IN SelectSeq(gateways, Test)

\* sum(sum(1 for i in r['Instances'] if running) for r in Reservations)
RECURSIVE RunningInstances(_)
RunningInstances(reservations) ==
    IF reservations = <<>> THEN 0
    ELSE Cardinality({i \in 1..Len(Head(reservations)) :
                         Head(reservations)[i] = "running"})
         + RunningInstances(Tail(reservations))

\* The resource summary, the cost lines (printed only for a count above
\* zero) and the total, amounts formatted in cents.
CostReport(active_nats, active_tgws, attachments, running_instances) ==
    LET nat_cost == active_nats * nat_hourly * hours_per_month
        tgw_cost == attachments * tgw_attachment_hourly * hours_per_month
    IN  [summary |-> [nats |-> active_nats, tgws |-> active_tgws,
                      attachments |-> attachments,
                      instances |-> running_instances],
         nat_line |-> IF active_nats > 0 THEN Some(Format2f(nat_cost)) ELSE None,
         tgw_line |-> IF attachments > 0 THEN Some(Format2f(tgw_cost)) ELSE None,
         total |-> Some(Format2f(nat_cost + tgw_cost))]

NoCostOut == [summary |-> [nats |-> 0, tgws |-> 0, attachments |-> 0,
                           instances |-> 0],
              nat_line |-> None, tgw_line |-> None, total |-> None]

\* ------------------------------------------------- collaborator and main
Commands == {"", "compliance", "vpc-map", "diff", "cost", "sec-groups",
             "subnet", "list-vpcs"}
AwsCommands == Commands \ {"", "subnet"}

\* How a collaborator call ends.
Errors == {"NoCredentialsError", "ClientError", "Exception"}
Outcomes == {"ok", "KeyboardInterrupt"} \cup Errors

\* The except clauses of main: the exit status for an exception that
\* reaches it.
MainHandler(exc) == IF exc = "KeyboardInterrupt" THEN 130 ELSE 1

\* get_session: what happens after sts.get_caller_identity ends with
\* outcome o.  "return" hands the session to the command, "exit" is
\* sys.exit(1), "raise" lets the exception reach main.
get_session_swallow(o) ==
    IF o = "KeyboardInterrupt" THEN "raise" ELSE "return"
get_session(o) ==
    IF o = "ok" THEN "return"
    ELSE IF o \in Errors THEN "exit"
    ELSE "raise"

VARIABLES
    command,      \* args.command
    strict,       \* args.strict
    cidrArg,      \* args.cidr
    count,        \* args.count
    pc,           \* where the invocation is
    status,       \* the process exit status, once pc = "exit"
    calls,        \* the collaborator calls issued, in order
    failedAt,     \* index in calls of the call that failed, 0 if none
    interrupted,  \* a KeyboardInterrupt was raised
    entries,      \* entries of the security-group response consumed
    sg_id,        \* the group being scanned (0: none yet)
    rule,         \* the rule being scanned, None before the first
    cidr,         \* the source entry scanned last, None before the first
    mark,         \* len(issues) before the source entry scanned last
    encountered,  \* issues, as appended (before the sort)
    issues,       \* issues, after the sort
    subnetOut,    \* what calculate_subnets printed and returned
    left,         \* loop iterations left (VPCs of vpc-map, TGWs of cost)
    subnets1,     \* diff: subnet CIDRs of args.vpc1
    subnets2,     \* diff: subnet CIDRs of args.vpc2
    diffOut,      \* diff: the "Only in" lines printed
    vpcs,         \* diff: None, or Some(the VPC ids describe_vpcs returned)
    vpcLines,     \* diff: the "VPC 1:" and "VPC 2:" lines printed
    nat_gateways, \* cost: the State of each NAT gateway returned
    tgws,         \* cost: the transit gateways returned
    total_attachments, \* cost: available attachments counted so far
    costOut       \* cost: the summary, cost lines and total printed

args == <<command, strict, cidrArg, count>>
flow == <<pc, status, calls, failedAt, interrupted>>
scan == <<entries, sg_id, rule, cidr, mark, encountered, issues>>
diffv == <<subnets1, subnets2, diffOut, vpcs, vpcLines>>
costv == <<nat_gateways, tgws, total_attachments, costOut>>
vars == <<args, flow, scan, subnetOut, left, diffv, costv>>

NoSubnetOut == [ret |-> 0, raised |-> FALSE, error |-> <<>>, out |-> NoOutput]
NoDiffOut == [only1 |-> None, only2 |-> None, printed |-> FALSE]
DefaultCidrArg == [octets |-> <<10, 0, 0, 0>>, prefix |-> Some(16)]

Init ==
    /\ command \in Commands
    /\ strict \in (IF command = "compliance" THEN BOOLEAN ELSE {FALSE})
    /\ cidrArg \in (IF command = "subnet" THEN CidrArgs ELSE {DefaultCidrArg})
    /\ count \in (IF command = "subnet" THEN Counts ELSE {1})
    /\ pc = "main"
    /\ status = 0
    /\ calls = <<>>
    /\ failedAt = 0
    /\ interrupted = FALSE
    /\ entries = 0
    /\ sg_id = 0
    /\ rule = None
    /\ cidr = None
    /\ mark = 0
    /\ encountered = <<>>
    /\ issues = <<>>
    /\ subnetOut = NoSubnetOut
    /\ left = 0
    /\ subnets1 = {}
    /\ subnets2 = {}
    /\ diffOut = NoDiffOut
    /\ vpcs = None
    /\ vpcLines = <<>>
    /\ nat_gateways = <<>>
    /\ tgws = <<>>
    /\ total_attachments = 0
    /\ costOut = NoCostOut

\* A collaborator call is issued and ends with outcome o.
Issued(name, o) ==
    /\ calls' = Append(calls, name)
    /\ failedAt' = IF o \in Errors THEN Len(calls) + 1 ELSE failedAt
    /\ interrupted' = (interrupted \/ o = "KeyboardInterrupt")

\* A call outside any try block of the command: on success the command
\* goes on at next, otherwise the exception reaches main.
Unguarded(name, o, next) ==
    /\ Issued(name, o)
    /\ IF o = "ok"
       THEN pc' = next /\ status' = status
       ELSE pc' = "exit" /\ status' = MainHandler(o)

\* main without a command: print_help, return 1.
NoCommand ==
    /\ pc = "main" /\ command = ""
    /\ pc' = "exit" /\ status' = 1
    /\ UNCHANGED <<args, calls, failedAt, interrupted, scan, subnetOut, left, diffv,
                   costv>>

\* get_session(args.region), the first statement of every AWS command.
GetSession(o) ==
    /\ pc = "main" /\ command \in AwsCommands
    /\ Issued("sts.get_caller_identity", o)
    /\ LET r == get_session(o)
       IN  IF r = "return" THEN pc' = command /\ status' = status
           ELSE IF r = "exit" THEN pc' = "exit" /\ status' = 1
           ELSE pc' = "exit" /\ status' = MainHandler(o)
    /\ UNCHANGED <<args, scan, subnetOut, left, diffv, costv>>

\* ------------------------------------------------------ check_compliance
\* ec2.describe_security_groups inside try / except ClientError: return 1.
DescribeSecurityGroups(o) ==
    /\ pc = "compliance"
    /\ Issued("describe_security_groups", o)
    /\ IF o = "ok" THEN pc' = "classify" /\ status' = status
       ELSE IF o = "ClientError" THEN pc' = "exit" /\ status' = 1
       ELSE pc' = "exit" /\ status' = MainHandler(o)
    /\ UNCHANGED <<args, scan, subnetOut, left, diffv, costv>>

\* for sg in response['SecurityGroups']: the next group begins.
NextGroup ==
    /\ pc = "classify" /\ entries < MaxEntries
    /\ entries' = entries + 1
    /\ sg_id' = sg_id + 1
    /\ rule' = None
    /\ cidr' = None
    /\ mark' = Len(encountered)
    /\ UNCHANGED <<args, flow, encountered, issues, subnetOut, left, diffv,
                   costv>>

\* for rule in sg.get('IpPermissions', []): the next rule of the group.
NextRule(IpProtocol, FromPort, ToPort) ==
    /\ pc = "classify" /\ entries < MaxEntries
    /\ sg_id > 0
    /\ entries' = entries + 1
    /\ rule' = Some([IpProtocol |-> IpProtocol, FromPort |-> FromPort,
                     ToPort |-> ToPort])
    /\ cidr' = None
    /\ mark' = Len(encountered)
    /\ UNCHANGED <<args, flow, sg_id, encountered, issues, subnetOut, left, diffv,
                   costv>>

\* for ip_range in rule.get('IpRanges', []): one source entry is classified.
ScanRange(CidrIp) ==
    /\ pc = "classify" /\ entries < MaxEntries
    /\ rule # None
    /\ entries' = entries + 1
    /\ cidr' = Some(CidrIp)
    /\ mark' = Len(encountered)
    /\ encountered' = encountered \o
           ClassifyRange(sg_id, rule[1].IpProtocol, rule[1].FromPort,
                         rule[1].ToPort, CidrIp)
    /\ UNCHANGED <<args, flow, sg_id, rule, issues, subnetOut, left, diffv,
                   costv>>

\* The response is exhausted: sort, count, print, return.
FinishCompliance ==
    /\ pc = "classify"
    /\ issues' = SortIssues(encountered)
    /\ pc' = "exit"
    /\ status' = ExitStatus(strict, CountSeverity(issues', "CRITICAL"),
                            CountSeverity(issues', "HIGH"))
    /\ UNCHANGED <<args, calls, failedAt, interrupted, entries, sg_id, rule,
                   cidr, mark, encountered, subnetOut, left, diffv, costv>>

\* --------------------------------------------------------------- vpc_map
VpcMapDescribeVpcs(o, n) ==
    /\ pc = "vpc-map"
    /\ Issued("describe_vpcs", o)
    /\ IF o # "ok" THEN pc' = "exit" /\ status' = MainHandler(o) /\ left' = left
       ELSE IF n = 0 THEN pc' = "exit" /\ status' = 0 /\ left' = left
       ELSE pc' = "vpc-map.subnets" /\ status' = status /\ left' = n
    /\ UNCHANGED <<args, scan, subnetOut, diffv, costv>>

VpcMapSubnets(o) ==
    /\ pc = "vpc-map.subnets"
    /\ Unguarded("describe_subnets", o, "vpc-map.route_tables")
    /\ UNCHANGED <<args, scan, subnetOut, left, diffv, costv>>

VpcMapRouteTables(o) ==
    /\ pc = "vpc-map.route_tables"
    /\ Unguarded("describe_route_tables", o, "vpc-map.instances")
    /\ UNCHANGED <<args, scan, subnetOut, left, diffv, costv>>

VpcMapInstances(o) ==
    /\ pc = "vpc-map.instances"
    /\ Issued("describe_instances", o)
    /\ IF o # "ok" THEN pc' = "exit" /\ status' = MainHandler(o) /\ left' = left
       ELSE IF left = 1 THEN pc' = "exit" /\ status' = 0 /\ left' = 0
       ELSE pc' = "vpc-map.subnets" /\ status' = status /\ left' = left - 1
    /\ UNCHANGED <<args, scan, subnetOut, diffv, costv>>

\* ------------------------------------------------------------- diff_vpcs
\* describe_vpcs(VpcIds=[vpc1, vpc2]) returns the VPCs found.
DiffDescribeVpcs(o, found) ==
    /\ pc = "diff"
    /\ Issued("describe_vpcs", o)
    /\ IF o # "ok" THEN pc' = "exit" /\ status' = MainHandler(o)
       ELSE IF NotBothVpcs(Len(found)) THEN pc' = "exit" /\ status' = 1
       ELSE pc' = "diff.subnets1" /\ status' = status
    /\ vpcs' = IF o = "ok" THEN Some(found) ELSE vpcs
    /\ vpcLines' = IF o = "ok" /\ ~NotBothVpcs(Len(found))
                   THEN VpcLines(found) ELSE vpcLines
    /\ UNCHANGED <<args, scan, subnetOut, left, subnets1, subnets2, diffOut,
                   costv>>

DiffSubnets1(o, cidrs) ==
    /\ pc = "diff.subnets1"
    /\ Unguarded("describe_subnets", o, "diff.subnets2")
    /\ subnets1' = IF o = "ok" THEN cidrs ELSE subnets1
    /\ UNCHANGED <<args, scan, subnetOut, left, subnets2, diffOut, vpcs, vpcLines,
                   costv>>

\* The second describe_subnets, then the subnet lines are printed.
DiffSubnets2(o, cidrs) ==
    /\ pc = "diff.subnets2"
    /\ Unguarded("describe_subnets", o, "diff.instances1")
    /\ subnets2' = IF o = "ok" THEN cidrs ELSE subnets2
    /\ diffOut' = IF o = "ok"
                  THEN [only1 |-> OnlyLine(OnlyIn(subnets1, cidrs)),
                        only2 |-> OnlyLine(OnlyIn(cidrs, subnets1)),
                        printed |-> TRUE]
                  ELSE diffOut
    /\ UNCHANGED <<args, scan, subnetOut, left, subnets1, vpcs, vpcLines,
                   costv>>

DiffInstances1(o) ==
    /\ pc = "diff.instances1"
    /\ Unguarded("describe_instances", o, "diff.instances2")
    /\ UNCHANGED <<args, scan, subnetOut, left, diffv, costv>>

DiffInstances2(o) ==
    /\ pc = "diff.instances2"
    /\ Unguarded("describe_instances", o, "exit")
    /\ UNCHANGED <<args, scan, subnetOut, left, diffv, costv>>

\* -------------------------------------------------------- estimate_costs
CostNatGateways(o, response) ==
    /\ pc = "cost"
    /\ Unguarded("describe_nat_gateways", o, "cost.tgws")
    /\ nat_gateways' = IF o = "ok" THEN response ELSE nat_gateways
    /\ UNCHANGED <<args, scan, subnetOut, left, diffv, tgws,
                   total_attachments, costOut>>

\* describe_transit_gateways; left counts the gateways in state available,
\* the ones the loop queries.
CostTransitGateways(o, response) ==
    /\ pc = "cost.tgws"
    /\ Unguarded("describe_transit_gateways", o,
                 IF Len(AvailableTgws(response)) = 0
                 THEN "cost.instances" ELSE "cost.attachments")
    /\ tgws' = IF o = "ok" THEN response ELSE tgws
    /\ left' = IF o = "ok" THEN Len(AvailableTgws(response)) ELSE left
    /\ UNCHANGED <<args, scan, subnetOut, diffv, nat_gateways,
                   total_attachments, costOut>>

\* describe_transit_gateway_attachments for the next available gateway.
CostAttachments(o) ==
    /\ pc = "cost.attachments"
    /\ Unguarded("describe_transit_gateway_attachments", o,
                 IF left = 1 THEN "cost.instances" ELSE "cost.attachments")
    /\ left' = IF o = "ok" THEN left - 1 ELSE left
    /\ LET queried == AvailableTgws(tgws)
           tgw == queried[Len(queried) - left + 1]
       IN  total_attachments' =
               IF o = "ok"
               THEN total_attachments + CountAvailable(tgw.Attachments)
               ELSE total_attachments
    /\ UNCHANGED <<args, scan, subnetOut, diffv, nat_gateways, tgws, costOut>>

\* describe_instances, then the summary, the cost lines and the total.
CostInstances(o, reservations) ==
    /\ pc = "cost.instances"
    /\ Unguarded("describe_instances", o, "exit")
    /\ costOut' = IF o = "ok"
                  THEN CostReport(CountAvailable(nat_gateways),
                                  Len(AvailableTgws(tgws)),
                                  total_attachments,
                                  RunningInstances(reservations))
                  ELSE costOut
    /\ UNCHANGED <<args, scan, subnetOut, left, diffv, nat_gateways, tgws,
                   total_attachments>>

\* ------------------------------------- analyze_security_groups, list_vpcs
SecGroups(o) ==
    /\ pc = "sec-groups"
    /\ Unguarded("describe_security_groups", o, "exit")
    /\ UNCHANGED <<args, scan, subnetOut, left, diffv, costv>>

ListVpcs(o) ==
    /\ pc = "list-vpcs"
    /\ Unguarded("describe_vpcs", o, "exit")
    /\ UNCHANGED <<args, scan, subnetOut, left, diffv, costv>>

\* ----------------------------------------------------- calculate_subnets
\* The subnet command: calculate_subnets under the try block of main.
CalculateSubnets ==
    /\ pc = "main" /\ command = "subnet"
    /\ subnetOut' = calculate_subnets(cidrArg, count)
    /\ pc' = "exit"
    /\ status' = IF subnetOut'.raised THEN MainHandler("Exception")
                 ELSE subnetOut'.ret
    /\ UNCHANGED <<args, calls, failedAt, interrupted, scan, left, diffv,
                   costv>>

Next ==
    \/ NoCommand
    \/ \E o \in Outcomes : GetSession(o)
    \/ \E o \in Outcomes : DescribeSecurityGroups(o)
    \/ NextGroup
    \/ /\ pc = "classify"
       /\ \E p \in Protocols, f \in PortBounds, t \in PortBounds :
              NextRule(p, f, t)
    \/ \E c \in SourceCidrs : ScanRange(c)
    \/ FinishCompliance
    \/ \E o \in Outcomes, n \in 0..MaxVpcs : VpcMapDescribeVpcs(o, n)
    \/ \E o \in Outcomes : VpcMapSubnets(o)
    \/ \E o \in Outcomes : VpcMapRouteTables(o)
    \/ \E o \in Outcomes : VpcMapInstances(o)
    \/ \E o \in Outcomes, found \in DiffResponses : DiffDescribeVpcs(o, found)
    \/ \E o \in Outcomes, s \in SUBSET SubnetCidrs : DiffSubnets1(o, s)
    \/ \E o \in Outcomes, s \in SUBSET SubnetCidrs : DiffSubnets2(o, s)
    \/ \E o \in Outcomes : DiffInstances1(o)
    \/ \E o \in Outcomes : DiffInstances2(o)
    \/ \E o \in Outcomes, r \in NatResponses : CostNatGateways(o, r)
    \/ /\ pc = "cost.tgws"
       /\ \E o \in Outcomes, r \in TgwResponses : CostTransitGateways(o, r)
    \/ \E o \in Outcomes : CostAttachments(o)
    \/ \E o \in Outcomes, r \in InstanceResponses : CostInstances(o, r)
    \/ \E o \in Outcomes : SecGroups(o)
    \/ \E o \in Outcomes : ListVpcs(o)
    \/ CalculateSubnets

Spec == Init /\ [][Next]_vars

\* ================================================================ claims
\* check_compliance ran to its return statement on a returned response.
ComplianceDone ==
    command = "compliance" /\ pc = "exit" /\ failedAt = 0 /\ ~interrupted

\* A source entry of a rule has just been classified; Added are the issues
\* it appended.
PairScanned == command = "compliance" /\ rule # None /\ cidr # None
Added == SubSeq(encountered, mark + 1, Len(encountered))
AddedSeverities == {Added[i].severity : i \in 1..Len(Added)}
AddedPorts == {Added[i].port : i \in 1..Len(Added)}

\* The port descriptors of the sensitive ports p with lo <= p <= hi.
PortsWithin(lo, hi) ==
    {risky_ports[i].descr : i \in {j \in 1..Len(risky_ports) :
        lo <= risky_ports[j].port /\ risky_ports[j].port <= hi}}

\* C1: once the security groups were returned, the exit status is 2 when
\* strict and a CRITICAL issue was classified, 1 when strict with no
\* CRITICAL but a HIGH issue, 0 otherwise; without strict it is always 0.
C1_ExitStatusPolicy ==
    ComplianceDone =>
        LET critical == CountSeverity(encountered, "CRITICAL")
            high == CountSeverity(encountered, "HIGH")
        IN  /\ (strict /\ critical > 0) => status = 2
            /\ (strict /\ critical = 0 /\ high > 0) => status = 1
            /\ (strict /\ critical = 0 /\ high = 0) => status = 0
            /\ ~strict => status = 0

\* Strict run that found both a CRITICAL and a HIGH issue and returned 2.
C1_Witness ==
    /\ ComplianceDone /\ strict /\ status = 2
    /\ CountSeverity(encountered, "CRITICAL") > 0
    /\ CountSeverity(encountered, "HIGH") > 0

\* C2: a source 0.0.0.0/0 under protocol "-1" (or no protocol) yields
\* exactly one issue, CRITICAL with port "ALL", whatever the port bounds.
C2_AllTrafficIsOneCritical ==
    (PairScanned /\ cidr[1] = Cidr_any
        /\ rule[1].IpProtocol \in {None, Some("-1")}) =>
            /\ Len(Added) = 1
            /\ Added[1].severity = "CRITICAL"
            /\ Added[1].port = "ALL"

\* Such a pair whose rule has no protocol and carries port bounds around a
\* sensitive port.
C2_Witness ==
    /\ PairScanned /\ cidr[1] = Cidr_any
    /\ rule[1].IpProtocol = None
    /\ rule[1].FromPort = Some(22) /\ rule[1].ToPort = Some(3306)
    /\ Len(Added) = 1

\* C3: a source 0.0.0.0/0 under another protocol yields one HIGH issue per
\* sensitive port within [FromPort, ToPort] when both bounds are present
\* (0 included), and nothing else; no issue when a bound is absent.
C3_HighPerPortInBounds ==
    (PairScanned /\ cidr[1] = Cidr_any
        /\ rule[1].IpProtocol \notin {None, Some("-1")}) =>
            IF rule[1].FromPort # None /\ rule[1].ToPort # None
            THEN LET within == PortsWithin(rule[1].FromPort[1], rule[1].ToPort[1])
                 IN  /\ AddedPorts = within
                     /\ Len(Added) = Cardinality(within)
                     /\ AddedSeverities \subseteq {"HIGH"}
            ELSE Added = <<>>

\* C4: MEDIUM issues come exactly from a source other than 0.0.0.0/0 whose
\* text ends in "/8" or "/16", with both bounds present, one per sensitive
\* port within the bounds; any other prefix length yields no issue.
C4_MediumExactlyForSlash8Or16 ==
    PairScanned =>
        LET large == cidr[1] \in {Cidr_8, Cidr_16}
            present == rule[1].FromPort # None /\ rule[1].ToPort # None
            medium == {i \in 1..Len(Added) : Added[i].severity = "MEDIUM"}
        IN  /\ IF large /\ present
               THEN LET within == PortsWithin(rule[1].FromPort[1],
                                              rule[1].ToPort[1])
                    IN  /\ {Added[i].port : i \in medium} = within
                        /\ Cardinality(medium) = Cardinality(within)
               ELSE medium = {}
            /\ (cidr[1] # Cidr_any /\ ~large) => Added = <<>>

\* The issues of one severity, in the order of the list.
OfSeverity(list, severity) ==
    LET Test(i) == i.severity = severity IN SelectSeq(list, Test)

\* C5: the output is the encounter-order list sorted by severity rank
\* CRITICAL < HIGH < MEDIUM, issues of equal severity keeping their
\* relative encounter order.
C5_StableSeverityOrder ==
    ComplianceDone =>
        /\ Len(issues) = Len(encountered)
        /\ \A i \in 1..Len(issues), j \in 1..Len(issues) :
              i < j => severity_order(issues[i].severity)
                          <= severity_order(issues[j].severity)
        /\ \A sev \in {"CRITICAL", "HIGH", "MEDIUM"} :
              OfSeverity(issues, sev) = OfSeverity(encountered, sev)

\* The sort moved something, and two different issues of one severity are
\* in the output.
C5_Witness ==
    /\ ComplianceDone
    /\ issues # encountered
    /\ \E i \in 1..Len(issues), j \in 1..Len(issues) :
          i < j /\ issues[i].severity = issues[j].severity
                /\ issues[i] # issues[j]

\* ------------------------------------------------------- subnet claims
SubnetDone == command = "subnet" /\ pc = "exit"

\* The argument names a network: four octets in 0..255, a prefix length in
\* 0..32 when given, and no address bit set beyond the prefix.
ArgPrefix == Get(cidrArg.prefix, 32)
ArgBase ==
    cidrArg.octets[1] * 16777216 + cidrArg.octets[2] * 65536
        + cidrArg.octets[3] * 256 + cidrArg.octets[4]
ArgIsNetwork ==
    /\ Len(cidrArg.octets) = 4
    /\ \A i \in 1..4 : cidrArg.octets[i] >= 0 /\ cidrArg.octets[i] <= 255
    /\ ArgPrefix >= 0 /\ ArgPrefix <= 32
    /\ IF ArgPrefix = 0 THEN ArgBase = 0
       ELSE (ArgBase \div 2 ^ (32 - ArgPrefix)) * 2 ^ (32 - ArgPrefix) = ArgBase

\* b is the least integer with 2^b >= n.
IsLeastBits(b, n) == 2 ^ b >= n /\ \A k \in 0..(b - 1) : 2 ^ k < n
LeastBits(n) == CHOOSE b \in 0..n : IsLeastBits(b, n)

\* C6: a successful split of a /P network into N lists exactly the N lowest
\* subnets of length P + b, b least with 2^b >= N, ascending, disjoint,
\* inside the network and numbered 1..N.
C6_LowestSubnetsListed ==
    (SubnetDone /\ ArgIsNetwork /\ count >= 1 /\ status = 0) =>
        LET a == subnetOut.out.allocations
            b == LeastBits(count)
            size == 2 ^ (32 - (ArgPrefix + b))
        IN  /\ subnetOut.out.new_prefix # None
            /\ subnetOut.out.new_prefix[1][1] = ArgPrefix + b
            /\ Len(a) = count
            /\ \A i \in 1..Len(a) :
                  /\ a[i].index = i
                  /\ a[i].subnet.prefixlen = ArgPrefix + b
                  /\ a[i].subnet.addr = ArgBase + (i - 1) * size
                  /\ a[i].subnet.addr + size <= ArgBase + 2 ^ (32 - ArgPrefix)
            /\ \A i \in 1..Len(a), j \in 1..Len(a) :
                  i < j => a[i].subnet.addr + size <= a[j].subnet.addr

\* 10.0.0.0/16 split in 5: /19, five of the eight subnets listed.
C6_Witness ==
    /\ SubnetDone /\ status = 0
    /\ cidrArg = [octets |-> <<10, 0, 0, 0>>, prefix |-> Some(16)]
    /\ count = 5
    /\ Len(subnetOut.out.allocations) = 5

\* C7: for a valid network and a positive count the split fails, with
\* status 1, an error naming the computed prefix and /28 and no allocation,
\* exactly when P + ceil(log2(count)) > 28; with count = 1 the new prefix
\* is P and the split succeeds exactly when P <= 28.
C7_CeilingAt28 ==
    (SubnetDone /\ ArgIsNetwork /\ count >= 1) =>
        LET np == ArgPrefix + LeastBits(count)
        IN  /\ np > 28 =>
                  /\ status = 1
                  /\ subnetOut.error = <<"Too many subnets", np, 28>>
                  /\ subnetOut.out.allocations = <<>>
            /\ np <= 28 =>
                  /\ status = 0
                  /\ subnetOut.error = <<>>
                  /\ subnetOut.out.new_prefix[1][1] = np
            /\ count = 1 =>
                  /\ status = 0 <=> ArgPrefix <= 28
                  /\ status = 0 => subnetOut.out.new_prefix[1][1] = ArgPrefix

\* A /28 is split in one (succeeds at the ceiling itself).
C7_Witness ==
    /\ SubnetDone /\ ArgIsNetwork
    /\ ArgPrefix = 28 /\ count = 1 /\ status = 0
    /\ Len(subnetOut.out.allocations) = 1

\* C8: a malformed CIDR fails inside calculate_subnets with status 1 for
\* every count, nothing of the split being printed.
C8_MalformedCidrRejected ==
    (SubnetDone /\ ~ArgIsNetwork) =>
        /\ status = 1
        /\ ~subnetOut.raised
        /\ subnetOut.error = <<"ValueError">>
        /\ subnetOut.out.original = None
        /\ subnetOut.out.new_prefix = None
        /\ subnetOut.out.allocations = <<>>

\* A network text with host bits set, given with a count of 0.
C8_Witness ==
    /\ SubnetDone /\ ~ArgIsNetwork /\ status = 1
    /\ cidrArg.octets = <<10, 0, 0, 1>> /\ cidrArg.prefix = Some(16)
    /\ count = 0

\* --------------------------------------------------------- diff claims
\* C9: diff_vpcs returns 1 and queries neither subnets nor instances when
\* describe_vpcs returns other than two VPCs; otherwise it reports
\* S1 \ S2 as only in VPC 1 and S2 \ S1 as only in VPC 2, each line only
\* when non-empty, so the reported sets are disjoint and hold no CIDR of
\* both VPCs.
C9_DiffSubnetSets ==
    command = "diff" =>
        /\ (vpcs # None /\ Len(vpcs[1]) # 2) =>
              /\ pc = "exit" /\ status = 1
              /\ calls = <<"sts.get_caller_identity", "describe_vpcs">>
              /\ ~diffOut.printed
        /\ diffOut.printed =>
              LET S1 == subnets1
                  S2 == subnets2
                  r1 == Get(diffOut.only1, {})
                  r2 == Get(diffOut.only2, {})
              IN  /\ vpcs # None /\ Len(vpcs[1]) = 2
                  /\ diffOut.only1 # None <=> \E c \in S1 : c \notin S2
                  /\ diffOut.only2 # None <=> \E c \in S2 : c \notin S1
                  /\ r1 = {c \in S1 : c \notin S2}
                  /\ r2 = {c \in S2 : c \notin S1}
                  /\ r1 \cap r2 = {}
                  /\ (r1 \cup r2) \cap (S1 \cap S2) = {}

\* {A, B} against {B, C}: A only in VPC 1, C only in VPC 2.
C9_Witness ==
    /\ command = "diff" /\ diffOut.printed
    /\ subnets1 = {"10.0.1.0/24", "10.0.2.0/24"}
    /\ subnets2 = {"10.0.2.0/24", "10.0.3.0/24"}
    /\ diffOut.only1 = Some({"10.0.1.0/24"})
    /\ diffOut.only2 = Some({"10.0.3.0/24"})

\* ------------------------------------------------------ failure claims
\* C10: a failed collaborator call is the last call of the invocation,
\* which then exits with status 1; an interrupt ends it with status 130.
C10_FailureIsTerminal ==
    /\ failedAt # 0 =>
          /\ failedAt = Len(calls)
          /\ pc = "exit"
          /\ status = 1
    /\ interrupted => pc = "exit" /\ status = 130
    /\ (pc = "exit" /\ Len(calls) > 0 /\ status = 0) =>
          failedAt = 0 /\ ~interrupted

\* The third call of a command failed, after two that succeeded.
C10_Witness ==
    /\ failedAt = 3 /\ Len(calls) = 3 /\ pc = "exit" /\ status = 1

\* C11: when describe_vpcs returns exactly two VPCs, the CIDR printed
\* beside each identifier of the command line is the CIDR of the VPC with
\* that identifier, whatever the order of the two records.
C11_CidrBesideItsVpc ==
    (command = "diff" /\ vpcLines # <<>>
        /\ {vpcs[1][i] : i \in 1..Len(vpcs[1])} = {vpc1, vpc2}) =>
            /\ vpcLines[1].id = vpc1 /\ vpcLines[1].cidr = CidrBlock(vpc1)
            /\ vpcLines[2].id = vpc2 /\ vpcLines[2].cidr = CidrBlock(vpc2)

\* ---------------------------------------------------------- cost claim
\* The available attachments of the gateways in state available.
RECURSIVE BillableAttachments(_)
BillableAttachments(gateways) ==
    IF gateways = <<>> THEN 0
    ELSE LET g == Head(gateways)
             mine == IF g.State = "available"
                     THEN Cardinality({i \in 1..Len(g.Attachments) :
                                          g.Attachments[i] = "available"})
                     ELSE 0
         IN  mine + BillableAttachments(Tail(gateways))

CostDone == command = "cost" /\ costOut.total # None

\* C12: with n available NAT gateways and a available attachments of
\* available transit gateways, the total is n * 32.85 + a * 36.50; the NAT
\* line is printed only when n > 0 and the attachment line only when
\* a > 0; nothing else changes the total.
C12_TotalFromNatsAndAttachments ==
    CostDone =>
        LET n == Cardinality({i \in 1..Len(nat_gateways) :
                                 nat_gateways[i] = "available"})
            a == BillableAttachments(tgws)
        IN  /\ costOut.total = Some(n * 3285 + a * 3650)
            /\ costOut.nat_line = IF n > 0 THEN Some(n * 3285) ELSE None
            /\ costOut.tgw_line = IF a > 0 THEN Some(a * 3650) ELSE None

\* Two of three NAT gateways available, a pending gateway holding an
\* available attachment beside an available gateway, instances running.
C12_Witness ==
    /\ CostDone
    /\ nat_gateways = <<"available", "deleted", "available">>
    /\ \E i \in 1..Len(tgws), j \in 1..Len(tgws) :
          /\ tgws[i].State = "pending"
          /\ tgws[i].Attachments = <<"available">>
          /\ tgws[j].State = "available"
          /\ tgws[j].Attachments = <<"available", "deleting", "available">>
    /\ costOut.summary.instances > 0
    /\ costOut.total = Some(2 * 3285 + 2 * 3650)

====
